---------------------------- MODULE Spec2Model ----------------------------
(***************************************************************************)
(* Task-distribution core of AI-Content-System: the Redis priority queue   *)
(* (task_queue.py), the provider/account selector (task_queue.py), the     *)
(* worker's assignment/retry cycle (worker.py) and the token reset job     *)
(* (scheduler.py).                                                         *)
(*                                                                         *)
(* Time is the reading of datetime.utcnow().timestamp() in whole seconds    *)
(* since 1970; a run starts at ClockStart.  A queue score is kept in       *)
(* millionths:                                                             *)
(* final_score * 1000000 = (10 - priority) * 1000000 + timestamp, which is *)
(* exact in integers and orders exactly as the float score does.           *)
(***************************************************************************)
EXTENDS Integers, Sequences, FiniteSets, TLC

\* ----------------------------------------------------------------- bounds
MaxEnqueues == 3        \* enqueue calls in a run of the queue specification
MaxTicks == 2           \* clock advances in a run
MaxTokens == 2          \* largest token_limit and token_used of an account at the start
MaxAssignments == 3     \* TaskAssignment rows in a run of the worker specification
MaxCost == 1            \* largest token cost of one generate_content call
MaxClock == 1           \* latest clock reading in a run of the worker specification

\* ------------------------------------------------------ program constants
PriorityBase == 10              \* task_queue.py: score = 10 - priority
TimestampDivisor == 1000000     \* task_queue.py: timestamp / 1000000
ResetCycleDays == 30            \* scheduler.py: timedelta(days=30)
MAX_ATTEMPTS == 3               \* worker.py
Day == 24 * 60 * 60             \* seconds
ClockStart == 1700000000        \* utcnow().timestamp() when a run starts (November 2023)

None == "None"
NULL == {}                      \* a nullable column holding NULL
Some(x) == {x}                  \* a nullable column holding x
TheValue(s) == CHOOSE x \in s : TRUE

\* Task ids are uuid strings; IdOrder lists the ids of the model in their
\* lexicographic (byte) order, the order Redis uses among equal scores.
IdOrder == <<"t1", "t2", "t3">>
TaskIds == {IdOrder[i] : i \in 1..Len(IdOrder)}
IdRank(id) == CHOOSE i \in 1..Len(IdOrder) : IdOrder[i] = id
Priorities == 1..5

VARIABLES
    now,        \* the clock, in seconds
    queue,      \* the sorted set QUEUE_KEY: member -> score (in millionths)
    qmeta,      \* history: queued member -> the priority, clock reading and serial of its enqueue
    added,      \* history: member -> number of enqueues that inserted it as a new entry
    popped,     \* history: member -> number of times dequeue_task returned it
    enqSeq,     \* history: number of enqueue calls so far
    ticks,      \* number of clock advances so far
    providers,  \* table ai_providers: the rows, in the order a query returns them
    accounts,   \* table provider_accounts: the committed rows, in query order
    selTask,    \* the task_type of the last select_provider_for_task call
    selResult,  \* the tuple that call returned
    lastReset,  \* history: the last run of the reset job (its time, the rows it found)
    api,        \* history: request id -> the create_task request and its response code
    tasks,      \* table tasks: id -> committed row
    assignments,\* table task_assignments: the committed rows, in insertion order
    contents,   \* table content: the committed rows
    pc,         \* worker -> where it stands in main_loop / process_task
    wtask,      \* worker -> the id its last dequeue_task returned
    wsess,      \* worker -> its SQLAlchemy session: the changes not yet committed
    wres,       \* worker -> how its last process_task ended, and the selector's message
    calls       \* history: task id -> the outcomes of its generate_content calls

queueVars == <<queue, qmeta, added, popped, enqSeq>>
selVars == <<selTask, selResult>>
storeVars == <<tasks, assignments, contents>>
workerVars == <<pc, wtask, wsess, wres, calls>>
vars == <<now, ticks, queue, qmeta, added, popped, enqSeq, providers, accounts,
          selTask, selResult, lastReset, api, tasks, assignments, contents,
          pc, wtask, wsess, wres, calls>>

\* ------------------------------------------------------------------ queue
\* A score that leaves the timestamp out.
Score_no_timestamp(priority, timestamp) == (PriorityBase - priority) * TimestampDivisor

\* TaskQueue.enqueue_task: the score, then ZADD writes the member's score,
\* inserting the member or overwriting the score it had.
Score(priority, timestamp) == (PriorityBase - priority) * TimestampDivisor + timestamp

\* An enqueue that keeps the score of a member already queued (ZADD NX).
enqueue_task_keeps_first(q, task_id, priority, timestamp) ==
    [m \in (DOMAIN q) \cup {task_id} |->
        IF m = task_id /\ m \notin DOMAIN q THEN Score(priority, timestamp) ELSE q[m]]

enqueue_task(q, task_id, priority, timestamp) ==
    [m \in (DOMAIN q) \cup {task_id} |->
        IF m = task_id THEN Score(priority, timestamp) ELSE q[m]]

\* ZPOPMIN's choice: the lowest score, and among equal scores the
\* lexicographically smallest member.
Before(q, a, b) == q[a] < q[b] \/ (q[a] = q[b] /\ IdRank(a) < IdRank(b))
PopMin(q) == CHOOSE m \in DOMAIN q : \A o \in (DOMAIN q) \ {m} : Before(q, m, o)

\* A dequeue that reads the head without removing it (ZRANGE for ZPOPMIN).
dequeue_task_peek(q) ==
    IF DOMAIN q = {} THEN [id |-> None, rest |-> q]
    ELSE [id |-> PopMin(q), rest |-> q]

\* TaskQueue.dequeue_task: one ZPOPMIN, the id it removed or None.
dequeue_task(q) ==
    IF DOMAIN q = {} THEN [id |-> None, rest |-> q]
    ELSE [id |-> PopMin(q), rest |-> [m \in (DOMAIN q) \ {PopMin(q)} |-> q[m]]]

queue_length(q) == Cardinality(DOMAIN q)

EmptyQueue == [m \in {} |-> 0]

\* --------------------------------------------------------------- selector
TaskTypes == {"image", "code"}
ProviderIds == <<"p1", "p2">>
AccountIds == <<"a1", "a2", "a3">>

\* ProviderAccount.tokens_available
tokens_available(acc) == acc.token_limit - acc.token_used

\* An eligibility test that lets an exhausted account through.
HasTokens_or_zero(acc) == tokens_available(acc) >= 0

\* The filter of the account list: tokens_available() > 0.
HasTokens(acc) == tokens_available(acc) > 0

\* The position list.sort(key, reverse=True) gives element i of a list of
\* <<item, key>> pairs: after every greater key, and after the equal keys
\* that stood before it (the sort is stable).
RankDesc(s, i) ==
    Cardinality({j \in 1..Len(s) : s[j][2] > s[i][2] \/ (s[j][2] = s[i][2] /\ j < i)}) + 1
RankAsc(s, i) ==
    Cardinality({j \in 1..Len(s) : s[j][2] < s[i][2] \/ (s[j][2] = s[i][2] /\ j < i)}) + 1

\* The sort without reverse=True.
SortAsc(s) == [r \in 1..Len(s) |-> s[CHOOSE i \in 1..Len(s) : RankAsc(s, i) = r]]

\* list.sort(key=lambda x: x[1], reverse=True)
SortDesc(s) == [r \in 1..Len(s) |-> s[CHOOSE i \in 1..Len(s) : RankDesc(s, i) = r]]

\* AIProvider.query.filter_by(status='active').all()
ActiveProviders(provs) == SelectSeq(provs, LAMBDA p : p.status = "active")

\* The providers whose competencies contain the task type, with their score.
MatchingProviders(provs, task_type) ==
    LET m == SelectSeq(ActiveProviders(provs), LAMBDA p : task_type \in DOMAIN p.competencies)
    IN  [i \in 1..Len(m) |-> <<m[i], m[i].competencies[task_type]>>]

\* The provider's active accounts with tokens left, most tokens first.
AvailableAccounts(accts, provider_id) ==
    LET own == SelectSeq(accts, LAMBDA a : a.provider_id = provider_id /\ a.status = "active")
        avail == SelectSeq(own, HasTokens)
    IN  SortDesc([i \in 1..Len(avail) |-> <<avail[i], tokens_available(avail[i])>>])

\* The tuple select_provider_for_task returns; arity is its length: the two
\* early returns give (None, message), the others three elements.
SelectTuple(n, p, a, e) == [arity |-> n, provider |-> p, account |-> a, error |-> e]
NoSelection == SelectTuple(0, None, None, None)
ErrNoActive == "No active AI providers available"
ErrNoCompetency(task_type) ==
    IF task_type = "image" THEN "No providers with competency for task type: image"
    ELSE "No providers with competency for task type: code"
ErrNoTokens == "No providers with available tokens"

\* TaskPrioritizer.select_provider_for_task
select_provider_for_task(task_type, provs, accts) ==
    IF ActiveProviders(provs) = <<>> THEN SelectTuple(2, None, None, ErrNoActive)
    ELSE IF MatchingProviders(provs, task_type) = <<>>
    THEN SelectTuple(2, None, None, ErrNoCompetency(task_type))
    ELSE LET ranked == SortDesc(MatchingProviders(provs, task_type))
             usable == {i \in 1..Len(ranked) : AvailableAccounts(accts, ranked[i][1].id) # <<>>}
         IN  IF usable = {} THEN SelectTuple(3, None, None, ErrNoTokens)
             ELSE LET first == CHOOSE i \in usable : \A j \in usable : i <= j
                  IN  SelectTuple(3, ranked[first][1].id,
                                  AvailableAccounts(accts, ranked[first][1].id)[1][1].id, None)

\* ------------------------------------------------------------ table rows
Statuses == {"active", "inactive"}
CompetencyChoices ==
    {[t \in {} |-> 0], [t \in {"image"} |-> 9], [t \in {"image"} |-> 10], [t \in {"code"} |-> 10]}

ProviderRow(i, name, st, comp) ==
    [id |-> ProviderIds[i], name |-> name, status |-> st, competencies |-> comp]
AccountRow(i, owner, st, limit, used) ==
    [id |-> AccountIds[i], provider_id |-> owner, status |-> st,
     token_limit |-> limit, token_used |-> used, reset_date |-> NULL]

\* Every provider table of two rows, and every account table of three rows
\* where a1 belongs to p1, a3 to p2 and a2 to either.
ProviderTables ==
    {<<ProviderRow(1, "GPT", s1, c1), ProviderRow(2, "Claude", s2, c2)>> :
        s1 \in Statuses, c1 \in CompetencyChoices, s2 \in Statuses, c2 \in CompetencyChoices}
AccountChoices(i, owners) ==
    {AccountRow(i, o, st, l, u) :
        o \in owners, st \in Statuses, l \in {1, MaxTokens}, u \in 0..MaxTokens}
AccountTables ==
    {<<x, y, z>> : x \in AccountChoices(1, {"p1"}), y \in AccountChoices(2, {"p1", "p2"}),
                   z \in AccountChoices(3, {"p2"})}

\* ----------------------------------------------------------------- worker
Workers == {"w1", "w2"}
WorkTaskIds == {"t1", "t2"}

\* A new Task row as create_task builds it.
TaskRow(priority, task_type) ==
    [status |-> "pending", priority |-> priority, task_type |-> task_type,
     error_message |-> None, started_at |-> NULL]

\* A new TaskAssignment as assign_task builds it; attempt_count and
\* tokens_used take their column default 0.
NewAssignment(task_id, provider_id, account_id) ==
    [task_id |-> task_id, provider_id |-> provider_id, account_id |-> account_id,
     status |-> "pending", attempt_count |-> 0, error_message |-> None, tokens_used |-> 0]

\* A status check that stops only finished tasks.
Processable_unless_finished(task) == task.status \notin {"completed", "failed"}

\* A status check that lets every task through.
Processable_any(task) == TRUE

\* process_task's check of the fetched task.
Processable(task) == task.status \in {"pending", "queued_for_retry"}

\* TaskPrioritizer.assign_task.  raised: unpacking the selector's tuple into
\* (provider, account, error) raises ValueError when it has two elements.
assign_task(task_id, task, provs, accts, t) ==
    LET sel == select_provider_for_task(task.task_type, provs, accts)
    IN  IF sel.arity # 3
        THEN [raised |-> TRUE, assigned |-> FALSE, error |-> sel.error, task |-> task,
              assignment |-> NewAssignment(task_id, None, None)]
        ELSE IF sel.error # None
        THEN [raised |-> FALSE, assigned |-> FALSE, error |-> sel.error,
              task |-> [task EXCEPT !.status = "failed"],
              assignment |-> NewAssignment(task_id, None, None)]
        ELSE [raised |-> FALSE, assigned |-> TRUE, error |-> None,
              task |-> [task EXCEPT !.status = "processing", !.started_at = Some(t)],
              assignment |-> NewAssignment(task_id, sel.provider, sel.account)]

\* An assignment that is counted but left pending.
BeginAssignment_stays_pending(row) == [row EXCEPT !.attempt_count = @ + 1]

\* An assignment that starts processing without being counted.
BeginAssignment_uncounted(row) == [row EXCEPT !.status = "processing"]

\* worker.py 94-95: the new assignment's first attempt starts.
BeginAssignment(row) == [row EXCEPT !.attempt_count = @ + 1, !.status = "processing"]

\* AIProviderFactory.get_provider: the registry is keyed by the upper-cased name.
Upper(name) ==
    CASE name = "Claude" -> "CLAUDE"
      [] name = "Gemini" -> "GEMINI"
      [] OTHER -> name
FactoryRegistry == {"GPT", "MANUS", "CLAUDE"}
get_provider(name) == IF Upper(name) \in FactoryRegistry THEN Upper(name) ELSE None

\* The content_type of the Content each integration builds.
ContentTypeOf(impl) ==
    CASE impl = "GPT" -> "image"
      [] impl = "MANUS" -> "code_project"
      [] OTHER -> "code"

\* The "provider" entry of the metadata each integration builds.
MetadataOf(impl) ==
    CASE impl = "GPT" -> "GPT"
      [] impl = "MANUS" -> "Manus"
      [] OTHER -> "Claude"

\* The Content generate_content returns for a task.
NewContent(task_id, impl) ==
    [task_id |-> task_id, content_type |-> ContentTypeOf(impl), metadata |-> MetadataOf(impl)]

\* The session of a worker: the writes process_task has made to the task,
\* the assignment (row asg of the table), a new Content and the account
\* since its last commit.
NoSession ==
    [asg |-> 0, task_status |-> None, task_error |-> None,
     asg_status |-> None, asg_error |-> None, asg_tokens |-> 0,
     content |-> NULL, account_used |-> NULL]

\* worker.py 113-118: no implementation for the provider's name.
ProviderNotFound(sess) ==
    [sess EXCEPT !.task_status = "failed",
                 !.task_error = "Provider implementation not found.",
                 !.asg_status = "failed",
                 !.asg_error = "Provider implementation not found in factory."]

\* A successful attempt that adds no Content to the session.
CompleteAttempt_no_content(sess, impl, cost, used_before) ==
    [sess EXCEPT !.task_status = "completed",
                 !.asg_status = "completed", !.asg_tokens = cost,
                 !.account_used = Some(used_before + cost)]

\* generate_content returned a Content: the integration has set
\* assignment.tokens_used and added the cost to the account row it loaded;
\* process_task adds the Content and marks task and assignment completed.
CompleteAttempt(sess, impl, cost, used_before) ==
    [sess EXCEPT !.task_status = "completed",
                 !.asg_status = "completed", !.asg_tokens = cost,
                 !.content = Some(impl),
                 !.account_used = Some(used_before + cost)]

\* An except-branch that leaves the assignment's status as it was.
FailAttempt_keeps_status(sess, err) == [sess EXCEPT !.asg_error = err]

\* An except-branch that records the message and leaves the assignment open.
FailAttempt_stays_processing(sess, err) ==
    [sess EXCEPT !.asg_status = "processing", !.asg_error = err]

\* worker.py 141-142: the except-branch marks the assignment failed.
FailAttempt(sess, err) == [sess EXCEPT !.asg_status = "failed", !.asg_error = err]

\* worker.py 144: the retry test, on the attempt_count of this assignment.
ShouldRetry(attempt_count) == attempt_count < MAX_ATTEMPTS

\* A retry that parks the task in a status of its own.
RetryTask_queued(sess) == [sess EXCEPT !.task_status = "queued_for_retry"]

\* worker.py 146 and 150-151: the task goes back to pending, or fails for good.
RetryTask(sess) == [sess EXCEPT !.task_status = "pending"]
GiveUpTask(sess) ==
    [sess EXCEPT !.task_status = "failed", !.task_error = "Task failed after MAX_ATTEMPTS attempts."]

\* The message of the exception the except-branch handles.
ErrorOf(outcome) ==
    IF outcome = "error" THEN "generate_content failed"
    ELSE "generate_content returned no content and no error."

\* The rows a commit of the session writes.
CommitTask(task, sess) ==
    [task EXCEPT !.status = sess.task_status,
                 !.error_message = IF sess.task_error # None THEN sess.task_error ELSE @]
CommitAssignment(row, sess) ==
    [row EXCEPT !.status = sess.asg_status, !.error_message = sess.asg_error,
                !.tokens_used = sess.asg_tokens]
CommitAccounts(accts, account_id, sess) ==
    [i \in 1..Len(accts) |->
        IF accts[i].id = account_id /\ sess.account_used # NULL
        THEN [accts[i] EXCEPT !.token_used = TheValue(sess.account_used)]
        ELSE accts[i]]

\* How process_task ended: skipped, raised, selector_failed or done.
Result(kind, reason) == [kind |-> kind, reason |-> reason]

\* The names worker.py binds at module level (its imports and definitions).
WorkerNames ==
    {"time", "logging", "datetime", "os", "Flask", "db", "main_app", "app",
     "TaskQueue", "TaskPrioritizer", "Task", "TaskAssignment", "AIProviderFactory",
     "MAX_ATTEMPTS", "process_task", "main_loop"}

\* main_loop when process_task raises: the except clauses are tried in
\* order, and the first, redis.exceptions.ConnectionError, is evaluated
\* before it can be matched.  With redis bound, `except Exception` logs and
\* the loop goes on; without it the evaluation raises NameError inside the
\* handler search, which leaves the while loop and ends main_loop.
main_loop_after_error == IF "redis" \in WorkerNames THEN "idle" ELSE "stopped"

\* -------------------------------------------------------------------- API
\* The "priority" member of the request's JSON body: absent, a number (an
\* integer, or a float given in tenths), a string (its characters), or null.
PriorityInput(kind, num, text) == [kind |-> kind, num |-> num, text |-> text]
AbsentInput == PriorityInput("absent", 0, <<>>)
IntInput(n) == PriorityInput("int", n, <<>>)
FloatInput(tenths) == PriorityInput("float", tenths, <<>>)
StrInput(text) == PriorityInput("str", 0, text)
NullInput == PriorityInput("null", 0, <<>>)

\* The request body: whether title and task_type are both present, the
\* priority member and the task_type.
Request(has_fields, priority, task_type) ==
    [has_fields |-> has_fields, priority |-> priority, task_type |-> task_type]

Digits == <<"0", "1", "2", "3", "4", "5", "6", "7", "8", "9">>
IsDigit(c) == \E i \in 1..Len(Digits) : Digits[i] = c
DigitValue(c) == (CHOOSE i \in 1..Len(Digits) : Digits[i] = c) - 1
RECURSIVE IntOfDigits(_)
IntOfDigits(text) ==
    IF text = <<>> THEN 0
    ELSE IntOfDigits(SubSeq(text, 1, Len(text) - 1)) * 10 + DigitValue(text[Len(text)])

\* Python's int(priority): an int is itself, a float (not negative here) is
\* truncated, a string of digits is parsed and any other string raises
\* ValueError, None raises TypeError.
ToInt(inp) ==
    CASE inp.kind = "int" -> [raised |-> None, value |-> inp.num]
      [] inp.kind = "float" -> [raised |-> None, value |-> inp.num \div 10]
      [] inp.kind = "str" ->
            IF inp.text # <<>> /\ \A i \in 1..Len(inp.text) : IsDigit(inp.text[i])
            THEN [raised |-> None, value |-> IntOfDigits(inp.text)]
            ELSE [raised |-> "ValueError", value |-> 0]
      [] OTHER -> [raised |-> "TypeError", value |-> 0]

\* data.get('priority', 1)
RequestPriority(data) == IF data.priority.kind = "absent" THEN IntInput(1) ELSE data.priority

\* What can go wrong in the try block: nothing, db.session.commit() raises,
\* or enqueue_task raises (Redis is unreachable).
Faults == {"none", "commit", "enqueue"}

Response(code, persisted, enqueued, priority) ==
    [code |-> code, persisted |-> persisted, enqueued |-> enqueued, priority |-> priority]

\* task_routes.create_task: the response code, whether the Task row is
\* committed and whether its id is enqueued, with which priority.  Missing
\* fields, ValueError and a value outside 1..5 are answered 400; only
\* ValueError is caught around int(), so TypeError leaves the view (500);
\* a failed commit is rolled back (500); a failed enqueue comes after the
\* commit, and the rollback in its handler undoes nothing (500).
create_task(data, fault) ==
    IF ~data.has_fields THEN Response(400, FALSE, FALSE, 0)
    ELSE LET r == ToInt(RequestPriority(data)) IN
         IF r.raised = "TypeError" THEN Response(500, FALSE, FALSE, 0)
         ELSE IF r.raised = "ValueError" \/ ~(1 <= r.value /\ r.value <= 5)
         THEN Response(400, FALSE, FALSE, 0)
         ELSE IF fault = "commit" THEN Response(500, FALSE, FALSE, r.value)
         ELSE IF fault = "enqueue" THEN Response(500, TRUE, FALSE, r.value)
         ELSE Response(201, TRUE, TRUE, r.value)

NoRequest ==
    [asked |-> FALSE, data |-> Request(TRUE, AbsentInput, "image"), fault |-> "none",
     code |-> 0]

\* The rows of the two tables, as sets.
ProviderRows == {providers[i] : i \in 1..Len(providers)}
AccountRows == {accounts[i] : i \in 1..Len(accounts)}
ProviderById(id) == CHOOSE p \in ProviderRows : p.id = id
AccountById(id) == CHOOSE a \in AccountRows : a.id = id

\* -------------------------------------------------------------- reset job
\* The query of the job: reset_date <= now (never true of NULL) and token_used > 0.
DueForReset(acc, t) ==
    acc.reset_date # NULL /\ TheValue(acc.reset_date) <= t /\ acc.token_used > 0

\* while next_reset_candidate <= now: next_reset_candidate += timedelta(days=30)
RECURSIVE AdvancePast(_, _)
AdvancePast(candidate, t) ==
    IF candidate <= t THEN AdvancePast(candidate + ResetCycleDays * Day, t) ELSE candidate

\* A next date of one cycle after the old one, however old it is.
NextResetDate_one_cycle(acc, t) ==
    IF acc.reset_date # NULL THEN TheValue(acc.reset_date) + ResetCycleDays * Day
    ELSE t + ResetCycleDays * Day

\* The next reset date the job computes for an account.
NextResetDate(acc, t) ==
    IF acc.reset_date # NULL
    THEN AdvancePast(TheValue(acc.reset_date) + ResetCycleDays * Day, t)
    ELSE t + ResetCycleDays * Day

\* A reset that moves the date on by one cycle and leaves the usage.
ResetAccount_keeps_usage(acc, t) ==
    [acc EXCEPT !.reset_date = Some(TheValue(acc.reset_date) + ResetCycleDays * Day)]

\* The loop body: zero the usage, move the reset date.
ResetAccount(acc, t) ==
    [acc EXCEPT !.token_used = 0, !.reset_date = Some(NextResetDate(acc, t))]

\* scheduled_token_reset, up to its commit: the rows of the session.
scheduled_token_reset(accts, t) ==
    [i \in 1..Len(accts) |-> IF DueForReset(accts[i], t) THEN ResetAccount(accts[i], t) ELSE accts[i]]

\* provider.reset_expired_tokens, up to its commit: the same query; each row
\* found gets token_used = 0 and its reset_date moved on by 30 days, once.
reset_expired_tokens(accts, t) ==
    [i \in 1..Len(accts) |->
        IF DueForReset(accts[i], t)
        THEN [accts[i] EXCEPT !.token_used = 0,
                              !.reset_date = Some(TheValue(@) + ResetCycleDays * Day)]
        ELSE accts[i]]

\* A failed commit that has written the first row of the session all the same.
CommitReset_first_row(accts, session, commit_ok) ==
    IF commit_ok THEN session
    ELSE [i \in 1..Len(accts) |-> IF i = 1 THEN session[i] ELSE accts[i]]

\* scheduler.py 69-75: db.session.commit() writes every row of the session;
\* when it raises, db.session.rollback() leaves the table as it was.
CommitReset(accts, session, commit_ok) == IF commit_ok THEN session ELSE accts

\* The record of a run: its time, the table before and after, whether its
\* commit was reached (some account was due) and whether it went through,
\* and whether it came right after a run that had reset an account (at the
\* same instant, on the table that run left).
NoRun ==
    [ran |-> FALSE, at |-> 0, before |-> <<>>, after |-> <<>>,
     committed |-> FALSE, failed |-> FALSE, second |-> FALSE]

\* The parts of the state a specification does not use stay as they start.
QueueIdle ==
    /\ queue = EmptyQueue
    /\ qmeta = [m \in {} |-> 0]
    /\ added = [m \in TaskIds |-> 0]
    /\ popped = [m \in TaskIds |-> 0]
    /\ enqSeq = 0
ClockIdle == now = ClockStart /\ ticks = 0
SelectIdle == selTask = None /\ selResult = NoSelection
ResetIdle == lastReset = NoRun
ApiIdle == api = [id \in TaskIds |-> NoRequest]
StoreIdle == tasks = [m \in {} |-> 0] /\ assignments = <<>> /\ contents = <<>>
WorkersIdle ==
    /\ pc = [w \in Workers |-> "idle"]
    /\ wtask = [w \in Workers |-> None]
    /\ wsess = [w \in Workers |-> NoSession]
    /\ wres = [w \in Workers |-> Result("none", None)]
    /\ calls = [id \in WorkTaskIds |-> <<>>]

\* -------------------------------------------------- the queue on its own
QInit ==
    /\ ClockIdle
    /\ QueueIdle
    /\ providers = <<>>
    /\ accounts = <<>>
    /\ SelectIdle
    /\ ResetIdle
    /\ ApiIdle
    /\ StoreIdle
    /\ WorkersIdle

\* Any caller (the API, a retrying worker) enqueues an id.
QEnqueue(id, p) ==
    /\ enqSeq < MaxEnqueues
    /\ queue' = enqueue_task(queue, id, p, now)
    /\ qmeta' = [m \in (DOMAIN qmeta) \cup {id} |->
                    IF m = id THEN [priority |-> p, time |-> now, seq |-> enqSeq + 1]
                    ELSE qmeta[m]]
    /\ added' = IF id \in DOMAIN queue THEN added ELSE [added EXCEPT ![id] = @ + 1]
    /\ enqSeq' = enqSeq + 1
    /\ UNCHANGED <<now, ticks, popped, providers, accounts, selVars, lastReset, api,
                   storeVars, workerVars>>

\* Any of the concurrent workers calls dequeue_task; the call is one Redis command.
QDequeue ==
    /\ DOMAIN queue # {}
    /\ queue' = dequeue_task(queue).rest
    /\ popped' = [popped EXCEPT ![dequeue_task(queue).id] = @ + 1]
    /\ qmeta' = [m \in (DOMAIN qmeta) \ {dequeue_task(queue).id} |-> qmeta[m]]
    /\ UNCHANGED <<now, ticks, added, enqSeq, providers, accounts, selVars, lastReset, api,
                   storeVars, workerVars>>

\* The clock advances: by a second, or by 1000000 seconds (11.6 days).
Tick(d) ==
    /\ ticks < MaxTicks
    /\ now' = now + d
    /\ ticks' = ticks + 1
    /\ UNCHANGED <<queueVars, providers, accounts, selVars, lastReset, api,
                   storeVars, workerVars>>

QNext ==
    \/ \E id \in TaskIds, p \in Priorities : QEnqueue(id, p)
    \/ QDequeue
    \/ \E d \in {1, TimestampDivisor} : Tick(d)

SpecQueue == QInit /\ [][QNext]_vars

\* -------------------------------------------------- the selector on its own
SInit ==
    /\ ClockIdle
    /\ QueueIdle
    /\ providers \in ProviderTables
    /\ accounts \in AccountTables
    /\ SelectIdle
    /\ ResetIdle
    /\ ApiIdle
    /\ StoreIdle
    /\ WorkersIdle

\* One call of the selector for a task of the given type.
Select(task_type) ==
    /\ selTask' = task_type
    /\ selResult' = select_provider_for_task(task_type, providers, accounts)
    /\ UNCHANGED <<now, ticks, queueVars, providers, accounts, lastReset, api,
                   storeVars, workerVars>>

SNext == \E t \in TaskTypes : Select(t)

SpecSelect == SInit /\ [][SNext]_vars

\* ------------------------------------------------- the reset job on its own
\* Two accounts of p1 with any usage, and a reset date that is NULL or lies
\* 45, 30 or 15 days back, now, or 15 days ahead.
ResetDates == {NULL} \cup {Some(ClockStart + k * 15 * Day) : k \in (0 - 3)..1}
ResetAccountChoices(i) ==
    {[AccountRow(i, "p1", "active", MaxTokens, u) EXCEPT !.reset_date = rd] :
        u \in 0..MaxTokens, rd \in ResetDates}
ResetTables == {<<x, y>> : x \in ResetAccountChoices(1), y \in ResetAccountChoices(2)}

RInit ==
    /\ ClockIdle
    /\ QueueIdle
    /\ providers = <<ProviderRow(1, "GPT", "active", [t \in {"image"} |-> 9])>>
    /\ accounts \in ResetTables
    /\ SelectIdle
    /\ ResetIdle
    /\ ApiIdle
    /\ StoreIdle
    /\ WorkersIdle

\* One run of scheduled_token_reset: the sweep, then the commit, which either
\* writes every row of the session or fails and is rolled back.
ScheduledReset(commit_ok) ==
    /\ accounts' = CommitReset(accounts, scheduled_token_reset(accounts, now), commit_ok)
    /\ lastReset' = [ran |-> TRUE, at |-> now, before |-> accounts, after |-> accounts',
                     committed |-> commit_ok
                        /\ \E i \in 1..Len(accounts) : DueForReset(accounts[i], now),
                     failed |-> ~commit_ok
                        /\ \E i \in 1..Len(accounts) : DueForReset(accounts[i], now),
                     second |-> lastReset.committed /\ lastReset.at = now
                        /\ lastReset.after = accounts]
    /\ UNCHANGED <<now, ticks, queueVars, providers, selVars, api, storeVars, workerVars>>

\* POST /tokens/reset by an admin: the sweep and its commit.
ManualReset ==
    /\ accounts' = reset_expired_tokens(accounts, now)
    /\ UNCHANGED <<now, ticks, queueVars, providers, selVars, lastReset, api,
                   storeVars, workerVars>>

\* A worker's commit records token usage on an account.
RecordUsage(i, n) ==
    /\ accounts[i].token_used + n <= MaxTokens
    /\ accounts' = [accounts EXCEPT ![i].token_used = @ + n]
    /\ UNCHANGED <<now, ticks, queueVars, providers, selVars, lastReset, api,
                   storeVars, workerVars>>

RNext ==
    \/ \E ok \in BOOLEAN : ScheduledReset(ok)
    \/ \E i \in 1..2 : RecordUsage(i, 1)
    \/ \E d \in {15 * Day, ResetCycleDays * Day} : Tick(d)

SpecReset == RInit /\ [][RNext]_vars

\* The manual sweep on the same tables, as time passes.
SweepNext ==
    \/ ManualReset
    \/ \E d \in {15 * Day, ResetCycleDays * Day} : Tick(d)

SpecSweep == RInit /\ [][SweepNext]_vars

\* ------------------------------------------------ API, queue and workers
\* The tables the workers run against: p2 (score 10) outranks p1 (score 9)
\* for "image" and is registered in the factory or not; or no provider is
\* active; or the active providers declare only "code".
WorkProviderTables ==
    {<<ProviderRow(1, "GPT", "active", [t \in {"image"} |-> 9]),
       ProviderRow(2, name, "active", [t \in {"image"} |-> 10])>> : name \in {"Claude", "Gemini"}}
    \cup
    {<<ProviderRow(1, "GPT", st, [t \in {ty} |-> 9]),
       ProviderRow(2, "Claude", st, [t \in {ty} |-> 10])>> :
        <<st, ty>> \in {<<"inactive", "image">>, <<"active", "code">>}}
\* p1 has one active account, with one token left; p2's account has one token
\* or none.
WorkAccountTables ==
    {<<AccountRow(1, "p1", "active", 1, 0), AccountRow(2, "p1", "inactive", 1, 0),
       AccountRow(3, "p2", "active", 1, u)>> : u \in {0, 1}}
\* The provider and account tables a run starts from.
WorkTables ==
    {<<pt, at>> \in WorkProviderTables \X WorkAccountTables :
        at[3].token_used = 0 \/ (pt[2].name = "Claude" /\ pt[1].status = "active"
                                   /\ "image" \in DOMAIN pt[1].competencies)}

\* The requests the clients of the workers' system send: image tasks with
\* an integer priority, one of them out of range.
WorkRequests == {Request(TRUE, IntInput(p), "image") : p \in {0, 3}}

Init ==
    /\ ClockIdle
    /\ QueueIdle
    /\ \E tb \in WorkTables : providers = tb[1] /\ accounts = tb[2]
    /\ SelectIdle
    /\ ResetIdle
    /\ ApiIdle
    /\ StoreIdle
    /\ WorkersIdle

\* One POST /tasks, named by the id its Task gets (a fresh uuid): the
\* whole of create_task, with the fault that strikes it.
CreateTask(id, data, fault) ==
    /\ ~api[id].asked
    /\ id \notin DOMAIN tasks
    /\ LET r == create_task(data, fault) IN
       /\ tasks' = IF r.persisted
                   THEN [m \in (DOMAIN tasks) \cup {id} |->
                            IF m = id THEN TaskRow(r.priority, data.task_type) ELSE tasks[m]]
                   ELSE tasks
       /\ queue' = IF r.enqueued THEN enqueue_task(queue, id, r.priority, now) ELSE queue
       /\ api' = [api EXCEPT ![id] =
                    [asked |-> TRUE, data |-> data, fault |-> fault, code |-> r.code]]
    /\ UNCHANGED <<now, ticks, qmeta, added, popped, enqSeq, providers, accounts, selVars,
                   lastReset, assignments, contents, workerVars>>

\* main_loop: dequeue_task returned an id (on None the worker sleeps and asks again).
W_Dequeue(w) ==
    /\ pc[w] = "idle"
    /\ dequeue_task(queue).id # None
    /\ queue' = dequeue_task(queue).rest
    /\ wtask' = [wtask EXCEPT ![w] = dequeue_task(queue).id]
    /\ pc' = [pc EXCEPT ![w] = "picked"]
    /\ wres' = [wres EXCEPT ![w] = Result("none", None)]
    /\ UNCHANGED <<now, ticks, qmeta, added, popped, enqSeq, providers, accounts, selVars,
                   lastReset, api, storeVars, wsess, calls>>

\* process_task up to its first commit (worker.py 46-101): fetch and check
\* the task, assign_task, then either the selector failure is committed, or
\* the ValueError leaves process_task (the session is dropped and main_loop
\* handles the error), or the task and its new assignment are committed as
\* processing.
W_Begin(w) ==
    LET id == wtask[w] IN
    /\ pc[w] = "picked"
    /\ IF id \notin DOMAIN tasks \/ ~Processable(tasks[id])
       THEN /\ pc' = [pc EXCEPT ![w] = "idle"]
            /\ wres' = [wres EXCEPT ![w] = Result("skipped", None)]
            /\ UNCHANGED <<tasks, assignments, wsess>>
       ELSE LET r == assign_task(id, tasks[id], providers, accounts, now) IN
            IF r.raised
            THEN /\ pc' = [pc EXCEPT ![w] = main_loop_after_error]
                 /\ wres' = [wres EXCEPT ![w] = Result("raised", r.error)]
                 /\ UNCHANGED <<tasks, assignments, wsess>>
            ELSE IF ~r.assigned
            THEN /\ tasks' = [tasks EXCEPT ![id] = [r.task EXCEPT !.error_message = r.error]]
                 /\ pc' = [pc EXCEPT ![w] = "idle"]
                 /\ wres' = [wres EXCEPT ![w] = Result("selector_failed", r.error)]
                 /\ UNCHANGED <<assignments, wsess>>
            ELSE /\ Len(assignments) < MaxAssignments
                 /\ assignments' = Append(assignments, BeginAssignment(r.assignment))
                 /\ tasks' = [tasks EXCEPT ![id] = r.task]
                 /\ wsess' = [wsess EXCEPT ![w] =
                        [NoSession EXCEPT !.asg = Len(assignments) + 1,
                                          !.task_status = "processing",
                                          !.asg_status = "processing"]]
                 /\ pc' = [pc EXCEPT ![w] = "execute"]
                 /\ UNCHANGED wres
    /\ UNCHANGED <<now, ticks, queueVars, providers, accounts, selVars, lastReset, api,
                   contents, wtask, calls>>

\* The outcomes of one generate_content call: a Content and its token cost,
\* an error, or neither content nor error.
CallOutcomes == {<<"ok", c>> : c \in 1..MaxCost} \cup {<<"error", 0>>, <<"empty", 0>>}

\* process_task from the factory lookup to the end of the try/except
\* (worker.py 106-151).  The writes stay in the session; the re-enqueue of a
\* retry reaches Redis at once.
W_Execute(w) ==
    LET id == wtask[w]
        sess == wsess[w]
        row == assignments[sess.asg]
        impl == get_provider(ProviderById(row.provider_id).name)
    IN
    /\ pc[w] = "execute"
    /\ IF impl = None
       THEN /\ wsess' = [wsess EXCEPT ![w] = ProviderNotFound(sess)]
            /\ UNCHANGED <<queue, calls>>
       ELSE \E o \in CallOutcomes :
            /\ calls' = [calls EXCEPT ![id] = Append(@, IF o[1] = "ok" THEN "ok" ELSE "fail")]
            /\ IF o[1] = "ok"
               THEN /\ wsess' = [wsess EXCEPT ![w] =
                          CompleteAttempt(sess, impl, o[2], AccountById(row.account_id).token_used)]
                    /\ UNCHANGED queue
               ELSE IF ShouldRetry(row.attempt_count)
               THEN /\ wsess' = [wsess EXCEPT ![w] = RetryTask(FailAttempt(sess, ErrorOf(o[1])))]
                    /\ queue' = enqueue_task(queue, id, tasks[id].priority, now)
               ELSE /\ wsess' = [wsess EXCEPT ![w] = GiveUpTask(FailAttempt(sess, ErrorOf(o[1])))]
                    /\ UNCHANGED queue
    /\ pc' = [pc EXCEPT ![w] = "commit"]
    /\ UNCHANGED <<now, ticks, qmeta, added, popped, enqSeq, providers, accounts, selVars,
                   lastReset, api, storeVars, wtask, wres>>

\* The commit that ends process_task (worker.py 153-155).
W_Commit(w) ==
    LET id == wtask[w]
        sess == wsess[w]
    IN
    /\ pc[w] = "commit"
    /\ tasks' = [tasks EXCEPT ![id] = CommitTask(@, sess)]
    /\ assignments' = [assignments EXCEPT ![sess.asg] = CommitAssignment(@, sess)]
    /\ contents' = IF sess.content # NULL
                   THEN Append(contents, NewContent(id, TheValue(sess.content)))
                   ELSE contents
    /\ accounts' = CommitAccounts(accounts, assignments[sess.asg].account_id, sess)
    /\ pc' = [pc EXCEPT ![w] = "idle"]
    /\ wsess' = [wsess EXCEPT ![w] = NoSession]
    /\ wres' = [wres EXCEPT ![w] = Result("done", None)]
    /\ UNCHANGED <<now, ticks, queueVars, providers, selVars, lastReset, api, wtask, calls>>

\* The clock moves on by a second.
WTick == now < ClockStart + MaxClock /\ Tick(1)

Next ==
    \/ \E id \in WorkTaskIds, data \in WorkRequests : CreateTask(id, data, "none")
    \/ \E w \in Workers : W_Dequeue(w)
    \/ \E w \in Workers : W_Begin(w)
    \/ \E w \in Workers : W_Execute(w)
    \/ \E w \in Workers : W_Commit(w)
    \/ WTick

Spec == Init /\ [][Next]_vars

\* The workers keep running: a worker that can dequeue, or is inside
\* process_task, takes its next step; every provider call returns.
Fairness ==
    \A w \in Workers :
        /\ WF_vars(W_Dequeue(w))
        /\ WF_vars(W_Begin(w))
        /\ WF_vars(W_Execute(w))
        /\ WF_vars(W_Commit(w))

SpecFair == Spec /\ Fairness

\* ------------------------------------------------------ the API on its own
\* The priority members a request is sent with.
PriorityInputs ==
    {AbsentInput, IntInput(0), IntInput(3), IntInput(6), FloatInput(27),
     StrInput(<<"3">>), StrInput(<<"a", "b", "c">>), NullInput}
Requests ==
    {Request(f, p, ty) : f \in BOOLEAN, p \in PriorityInputs, ty \in TaskTypes}

CInit ==
    /\ ClockIdle
    /\ QueueIdle
    /\ providers = <<>>
    /\ accounts = <<>>
    /\ SelectIdle
    /\ ResetIdle
    /\ ApiIdle
    /\ StoreIdle
    /\ WorkersIdle

CNext ==
    \/ \E id \in WorkTaskIds, data \in Requests, fault \in Faults : CreateTask(id, data, fault)
    \/ Tick(1)

SpecCreate == CInit /\ [][CNext]_vars

\* ------------------------------------------- workers facing a stale queue
\* The queue outlives what it points to: it holds the id t1 while the store
\* has no such task, or has it in the hands of another worker (processing,
\* with its open assignment), or completed with its Content, or failed by
\* the selector.
StaleTask(status, error) ==
    [TaskRow(3, "image") EXCEPT !.status = status, !.error_message = error,
                                !.started_at = IF status \in {"processing", "completed"}
                                               THEN Some(ClockStart) ELSE NULL]
StaleAssignment(status, tokens) ==
    [BeginAssignment(NewAssignment("t1", "p1", "a1")) EXCEPT !.status = status,
                                                             !.tokens_used = tokens]
StaleStores ==
    {[tasks |-> [m \in {} |-> 0], assignments |-> <<>>, contents |-> <<>>],
     [tasks |-> [m \in {"t1"} |-> StaleTask("processing", None)],
      assignments |-> <<StaleAssignment("processing", 0)>>, contents |-> <<>>],
     [tasks |-> [m \in {"t1"} |-> StaleTask("completed", None)],
      assignments |-> <<StaleAssignment("completed", 1)>>,
      contents |-> <<NewContent("t1", "GPT")>>],
     [tasks |-> [m \in {"t1"} |-> StaleTask("failed", ErrNoTokens)],
      assignments |-> <<>>, contents |-> <<>>]}

StaleInit ==
    /\ ClockIdle
    /\ queue = enqueue_task(EmptyQueue, "t1", 3, ClockStart)
    /\ qmeta = [m \in {} |-> 0]
    /\ added = [m \in TaskIds |-> 0]
    /\ popped = [m \in TaskIds |-> 0]
    /\ enqSeq = 0
    /\ providers = <<ProviderRow(1, "GPT", "active", [t \in {"image"} |-> 9]),
                     ProviderRow(2, "Claude", "active", [t \in {"image"} |-> 10])>>
    /\ accounts = <<AccountRow(1, "p1", "active", 1, 0), AccountRow(2, "p1", "inactive", 1, 0),
                    AccountRow(3, "p2", "active", 1, 0)>>
    /\ SelectIdle
    /\ ResetIdle
    /\ ApiIdle
    /\ \E st \in StaleStores :
          tasks = st.tasks /\ assignments = st.assignments /\ contents = st.contents
    /\ WorkersIdle

SpecStale == StaleInit /\ [][Next]_vars

\* ---------------------------------------------------------------- claims
\* C3: dequeue is exactly-once: every entry inserted in the queue is either
\* still queued or has been returned by exactly one dequeue_task call, so
\* racing dequeues never return one entry twice and never drop one.
C3_ExactlyOnce ==
    \A id \in TaskIds :
        popped[id] + (IF id \in DOMAIN queue THEN 1 ELSE 0) = added[id]

\* Three ids were queued, three dequeues ran, each id came back once and the
\* queue is empty.
C3_Witness ==
    /\ DOMAIN queue = {}
    /\ \A id \in TaskIds : added[id] = 1 /\ popped[id] = 1

\* C4: a task enqueued with the higher priority after a queued task of lower
\* priority has the strictly lower score and is dequeued first, whatever the
\* enqueue times.
C4_PriorityDominates ==
    \A a \in DOMAIN queue : \A b \in DOMAIN queue :
        (qmeta[a].priority > qmeta[b].priority /\ qmeta[a].seq > qmeta[b].seq)
            => (queue[a] < queue[b] /\ PopMin(queue) # b)

Candidates(task_type) ==
    {p \in ProviderRows :
        /\ p.status = "active"
        /\ task_type \in DOMAIN p.competencies
        /\ \E a \in AccountRows :
              a.provider_id = p.id /\ a.status = "active" /\ a.token_limit - a.token_used > 0}

\* C6: the selector returns a candidate provider of the highest competency
\* score for the task type (and fails exactly when there is no candidate); a
\* higher-scoring provider without available tokens is never returned.
C6_BestCandidate ==
    selResult.arity # 0 =>
        IF Candidates(selTask) = {} THEN selResult.provider = None
        ELSE /\ selResult.provider # None
             /\ ProviderById(selResult.provider) \in Candidates(selTask)
             /\ \A q \in Candidates(selTask) :
                    q.competencies[selTask]
                        <= ProviderById(selResult.provider).competencies[selTask]

\* Provider p1 scores 9 and has tokens, p2 scores 10 and is active but has no
\* account with tokens: the selector returned p1.
C6_Witness ==
    /\ selTask = "image"
    /\ selResult.provider = "p1"
    /\ providers[1].competencies = [t \in {"image"} |-> 9]
    /\ providers[2].competencies = [t \in {"image"} |-> 10]
    /\ providers[2].status = "active"
    /\ \A a \in AccountRows : a.provider_id = "p2" => a.token_limit - a.token_used <= 0

\* C7: when the selector succeeds, the account it returns belongs to the
\* returned provider, is active, has token_limit - token_used > 0, and no
\* other active account of that provider has more tokens available.
C7_AccountWithinBudget ==
    (selResult.arity # 0 /\ selResult.provider # None) =>
        /\ selResult.account # None
        /\ AccountById(selResult.account).provider_id = selResult.provider
        /\ AccountById(selResult.account).status = "active"
        /\ AccountById(selResult.account).token_limit
              - AccountById(selResult.account).token_used > 0
        /\ \A o \in AccountRows :
              (o.provider_id = selResult.provider /\ o.status = "active")
                  => o.token_limit - o.token_used
                        <= AccountById(selResult.account).token_limit
                              - AccountById(selResult.account).token_used

\* The provider has two active accounts with tokens; the one returned is the
\* later row, which has more tokens available than the earlier one.
C7_Witness ==
    /\ selResult.provider = "p1"
    /\ selResult.account = "a2"
    /\ accounts[1].status = "active"
    /\ accounts[1].token_limit - accounts[1].token_used > 0
    /\ accounts[2].token_limit - accounts[2].token_used
          > accounts[1].token_limit - accounts[1].token_used

\* C10: a reset run at time now that commits leaves every account that had a
\* non-null reset_date <= now and token_used > 0 with token_used = 0 and
\* reset_date = old + 30 days * k for the smallest k >= 1 that puts it
\* strictly after now, which is k = (now - old) div 30 days + 1.
C10_ResetAdvances ==
    [][(lastReset' # lastReset /\ lastReset'.committed) =>
        \A i \in 1..Len(accounts) :
            (accounts[i].reset_date # NULL /\ TheValue(accounts[i].reset_date) <= now
                /\ accounts[i].token_used > 0)
            => /\ accounts'[i].token_used = 0
               /\ accounts'[i].reset_date =
                    Some(TheValue(accounts[i].reset_date)
                         + ResetCycleDays * Day
                           * (((now - TheValue(accounts[i].reset_date))
                                \div (ResetCycleDays * Day)) + 1))
               /\ TheValue(accounts'[i].reset_date) > now]_vars

\* An account with reset_date = now - 45 days and usage was reset by a
\* committed run: its usage is 0 and its date is the old date + 60 days.
C10_Witness ==
    /\ lastReset.committed
    /\ \E i \in 1..Len(accounts) :
        /\ lastReset.before[i].token_used > 0
        /\ lastReset.before[i].reset_date = Some(lastReset.at - 45 * Day)
        /\ accounts[i].token_used = 0
        /\ accounts[i].reset_date = Some(lastReset.at - 45 * Day + 60 * Day)

\* C11: a reset run that follows a run of the same instant whose changes
\* were committed (or that found nothing to reset), with no usage recorded in
\* between, changes no field of any account.
C11_ResetIdempotent ==
    [][(lastReset.ran /\ ~lastReset.failed /\ lastReset.at = now
            /\ accounts = lastReset.after /\ lastReset' # lastReset)
        => accounts' = accounts]_vars

\* Two runs at one instant: the first reset an account, the second ran on
\* the table the first left and left it the same.
C11_Witness ==
    /\ lastReset.second
    /\ lastReset.before = lastReset.after
    /\ lastReset.after = accounts

\* C19: a reset run whose commit fails leaves the token_used and reset_date
\* of every account as they were before the run, so the accounts that were
\* due are still due.
C19_FailedResetChangesNothing ==
    [][(lastReset' # lastReset /\ lastReset'.failed) =>
        \A i \in 1..Len(accounts) :
            /\ accounts'[i].token_used = accounts[i].token_used
            /\ accounts'[i].reset_date = accounts[i].reset_date
            /\ DueForReset(accounts'[i], now) = DueForReset(accounts[i], now)]_vars

\* The commit of the last run failed and both accounts, which were due, are
\* still due with their usage.
C19_Witness ==
    /\ lastReset.failed
    /\ lastReset.at = now
    /\ \A i \in 1..Len(accounts) :
          accounts[i] = lastReset.before[i] /\ DueForReset(accounts[i], now)

\* A worker has dequeued the id and has not yet left process_task.
Held(t) == \E w \in Workers : wtask[w] = t /\ pc[w] # "idle"
RowsOf(t) == {i \in 1..Len(assignments) : assignments[i].task_id = t}
RowsWith(t, statuses) == {i \in RowsOf(t) : assignments[i].status \in statuses}

\* C1: a task whose provider call fails on every attempt gets at most
\* MAX_ATTEMPTS calls, and once the third failed attempt is processed the
\* task is failed and its id is not in the queue.
C1_BoundedRetry ==
    \A t \in DOMAIN tasks :
        (\A i \in 1..Len(calls[t]) : calls[t][i] = "fail") =>
            /\ Len(calls[t]) <= MAX_ATTEMPTS
            /\ (Len(calls[t]) = MAX_ATTEMPTS /\ ~Held(t))
                  => (tasks[t].status = "failed" /\ t \notin DOMAIN queue)

\* C2: a task whose provider call failed twice and then succeeded is
\* completed, with exactly three assignment rows: two failed, one completed.
C2_TwoFailuresThenSuccess ==
    \A t \in DOMAIN tasks :
        (calls[t] = <<"fail", "fail", "ok">> /\ ~Held(t)) =>
            /\ tasks[t].status = "completed"
            /\ Cardinality(RowsOf(t)) = 3
            /\ Cardinality(RowsWith(t, {"failed"})) = 2
            /\ Cardinality(RowsWith(t, {"completed"})) = 1

\* A task went through fail, fail, ok and its last cycle is committed.
C2_Witness ==
    \E t \in DOMAIN tasks :
        calls[t] = <<"fail", "fail", "ok">> /\ ~Held(t) /\ tasks[t].status = "completed"

\* C8: when the selector found no provider and account for a dequeued task,
\* whatever the cause, then once the worker is done with the task it is
\* failed with the selector's message, has no open assignment and is not in
\* the queue.
C8_SelectorFailureTerminal ==
    \A w \in Workers :
        (pc[w] \in {"idle", "stopped"} /\ wres[w].kind \in {"raised", "selector_failed"}) =>
            /\ tasks[wtask[w]].status = "failed"
            /\ tasks[wtask[w]].error_message = wres[w].reason
            /\ RowsWith(wtask[w], {"pending", "processing"}) = {}
            /\ wtask[w] \notin DOMAIN queue

\* C9: every task has at most one assignment that is pending or processing,
\* and at most one worker is in the provider call for it.
C9_OneActiveAssignment ==
    \A t \in DOMAIN tasks :
        /\ Cardinality(RowsWith(t, {"pending", "processing"})) <= 1
        /\ Cardinality({w \in Workers : wtask[w] = t /\ pc[w] = "execute"}) <= 1

\* Two workers dequeued the same id: the first has re-enqueued it for a retry
\* and not yet committed, the second found the task processing and skipped
\* it; the task has its one open assignment.
C9_Witness ==
    \E w1 \in Workers : \E w2 \in Workers \ {w1} :
        /\ wtask[w1] = wtask[w2]
        /\ pc[w1] = "commit"
        /\ pc[w2] = "idle"
        /\ wres[w2].kind = "skipped"
        /\ Cardinality(RowsWith(wtask[w1], {"pending", "processing"})) = 1

\* The Content rows of a task.
ContentsOf(t) == {j \in 1..Len(contents) : contents[j].task_id = t}

\* C12: in every committed state of the store, whatever the workers hold in
\* their sessions (a crash drops a session), a task that is processing has
\* an assignment that is processing, and an assignment that is completed has
\* a Content row of its task.
C12_CrashConsistent ==
    /\ \A t \in DOMAIN tasks :
          tasks[t].status = "processing" => RowsWith(t, {"processing"}) # {}
    /\ \A i \in 1..Len(assignments) :
          assignments[i].status = "completed" => ContentsOf(assignments[i].task_id) # {}

\* A worker holds a finished attempt in its session, Content included, and
\* has not committed: the store, which is what a crash now would leave, has
\* the task and its assignment processing and no Content.
C12_Witness ==
    \E w \in Workers :
        /\ pc[w] = "commit"
        /\ wsess[w].content # NULL
        /\ tasks[wtask[w]].status = "processing"
        /\ assignments[wsess[w].asg].status = "processing"
        /\ ContentsOf(wtask[w]) = {}

\* C13: main_loop does not end when process_task raises for one task: no
\* worker is ever stopped.
C13_LoopSurvives == \A w \in Workers : pc[w] # "stopped"

\* C14: a task whose attempt failed because the provider's name is not in
\* the factory registry becomes failed only when its attempts are exhausted:
\* while it has fewer than MAX_ATTEMPTS attempts it is not failed.
C14_UnknownProviderRetried ==
    \A t \in DOMAIN tasks :
        (/\ tasks[t].status = "failed"
         /\ \E i \in RowsWith(t, {"failed"}) :
                get_provider(ProviderById(assignments[i].provider_id).name) = None)
        => \/ Cardinality(RowsOf(t)) >= MAX_ATTEMPTS
           \/ \E i \in RowsOf(t) : assignments[i].attempt_count >= MAX_ATTEMPTS

\* C16: a task has as many Content rows as completed assignments, at most
\* one, and no step removes or changes a Content row that exists.
C16_ContentOncePerSuccess ==
    /\ [](\A t \in DOMAIN tasks :
            /\ Cardinality(ContentsOf(t)) = Cardinality(RowsWith(t, {"completed"}))
            /\ Cardinality(ContentsOf(t)) <= 1)
    /\ [][\A j \in 1..Len(contents) :
            Len(contents') >= j /\ contents'[j] = contents[j]]_vars

\* Both tasks are completed, each with its one Content row, the first
\* written before the second.
C16_Witness ==
    /\ Len(contents) = 2
    /\ contents[1].task_id # contents[2].task_id
    /\ \A t \in DOMAIN tasks : tasks[t].status = "completed"

\* The status changes of the task state machine.
TaskTransitions ==
    {<<"pending", "processing">>, <<"processing", "completed">>, <<"processing", "failed">>,
     <<"processing", "pending">>, <<"pending", "failed">>}

\* C17: every change of a task's committed status is one of pending ->
\* processing, processing -> completed, processing -> failed, processing ->
\* pending and pending -> failed; so completed and failed are never left.
C17_StateMachine ==
    [][\A t \in DOMAIN tasks :
        tasks'[t].status # tasks[t].status
            => <<tasks[t].status, tasks'[t].status>> \in TaskTransitions]_vars

\* A task went pending, processing, pending (retry), processing, completed.
C17_Witness ==
    \E t \in DOMAIN tasks :
        calls[t] = <<"fail", "ok">> /\ ~Held(t) /\ tasks[t].status = "completed"

\* The scores of a priority's band: (10 - priority) plus a fraction below 1.
InBand(score, priority) ==
    /\ (PriorityBase - priority) * TimestampDivisor <= score
    /\ score < (PriorityBase - priority + 1) * TimestampDivisor

\* C20: when a provider call fails below the attempt limit, the step that
\* handles it leaves the assignment failed with a message and the task
\* pending in the worker's session, and the id in the queue with a score in
\* the band of the task's priority.
C20_RetryableFailure ==
    [][\A w \in Workers :
        (/\ pc[w] = "execute"
         /\ pc'[w] = "commit"
         /\ calls'[wtask[w]] = Append(calls[wtask[w]], "fail")
         /\ assignments[wsess[w].asg].attempt_count < MAX_ATTEMPTS)
        => /\ wsess'[w].asg_status = "failed"
           /\ wsess'[w].asg_error # None
           /\ wsess'[w].task_status = "pending"
           /\ wtask[w] \in DOMAIN queue'
           /\ InBand(queue'[wtask[w]], tasks[wtask[w]].priority)]_vars

\* C15: while no main_loop has ended, every task that exists is eventually
\* completed or failed (or the run has used up the assignment rows of the
\* model).
C15_EveryTaskTerminates ==
    [](\A w \in Workers : pc[w] # "stopped") =>
        \A t \in WorkTaskIds :
            (t \in DOMAIN tasks) ~>
                \/ (t \in DOMAIN tasks /\ tasks[t].status \in {"completed", "failed"})
                \/ Len(assignments) = MaxAssignments

\* C18: when a worker leaves process_task for an id whose task does not
\* exist or is processing, completed or failed, the step changes no task,
\* assignment, Content or account row, makes no provider call and leaves the
\* queue as it is; the worker is back in its loop.
C18_StaleIdSkipped ==
    [][\A w \in Workers :
        (/\ pc[w] = "picked"
         /\ pc'[w] # "picked"
         /\ \/ wtask[w] \notin DOMAIN tasks
            \/ tasks[wtask[w]].status \in {"processing", "completed", "failed"})
        => /\ tasks' = tasks
           /\ assignments' = assignments
           /\ contents' = contents
           /\ accounts' = accounts
           /\ calls' = calls
           /\ queue' = queue
           /\ pc'[w] = "idle"]_vars

\* A worker dequeued t1, found no such task and skipped it; the store is
\* still empty and the queue too.
C18_Witness ==
    \E w \in Workers :
        /\ wtask[w] = "t1"
        /\ wres[w].kind = "skipped"
        /\ pc[w] = "idle"
        /\ "t1" \notin DOMAIN tasks
        /\ assignments = <<>>
        /\ DOMAIN queue = {}

\* A worker is inside process_task for the id.
InProcess(t) == \E w \in Workers : wtask[w] = t /\ pc[w] \in {"picked", "execute", "commit"}

\* C21: a worker re-enqueues a task only after it has marked the attempt's
\* assignment failed, and a new assignment of a task is created only when
\* every earlier assignment of the task is committed as failed or completed.
C21_RetryAfterTerminal ==
    [][/\ \A w \in Workers :
            (pc[w] = "execute" /\ wtask[w] \in DOMAIN queue' /\ wtask[w] \notin DOMAIN queue)
                => wsess'[w].asg_status = "failed"
       /\ Len(assignments') > Len(assignments)
            => \A i \in RowsOf(assignments'[Len(assignments')].task_id) :
                    assignments[i].status \in {"failed", "completed"}]_vars

\* A task is in its second attempt: its first assignment is failed, its
\* second is processing in the hands of a worker.
C21_Witness ==
    \E t \in DOMAIN tasks :
        /\ Cardinality(RowsOf(t)) = 2
        /\ Cardinality(RowsWith(t, {"failed"})) = 1
        /\ \E w \in Workers : wtask[w] = t /\ pc[w] = "execute"
                /\ assignments[wsess[w].asg].status = "processing"

\* C22: the commit of an attempt that failed changes no account's token_used
\* and leaves the assignment's tokens_used 0; the commit of an attempt that
\* succeeded raises the token_used of the assignment's account by the
\* assignment's tokens_used and changes no other account.
C22_TokensOnSuccessOnly ==
    [][\A w \in Workers :
        (pc[w] = "commit" /\ pc'[w] = "idle") =>
            LET row == assignments'[wsess[w].asg] IN
            /\ row.status = "failed" => (accounts' = accounts /\ row.tokens_used = 0)
            /\ row.status = "completed" =>
                \A i \in 1..Len(accounts) :
                    accounts'[i].token_used = accounts[i].token_used
                        + (IF accounts[i].id = row.account_id THEN row.tokens_used ELSE 0)]_vars

\* C24: once a task's started_at is set, no step changes it.
C24_StartedAtKept ==
    [][\A t \in DOMAIN tasks :
        tasks[t].started_at # NULL => tasks'[t].started_at = tasks[t].started_at]_vars

\* C25: while a worker is in the provider call of an attempt, the store has
\* the task committed as processing and the attempt's assignment, a row of
\* this task, committed as processing with attempt_count 1.
C25_PersistBeforeExecute ==
    \A w \in Workers :
        pc[w] = "execute" =>
            /\ tasks[wtask[w]].status = "processing"
            /\ wsess[w].asg \in RowsOf(wtask[w])
            /\ assignments[wsess[w].asg].status = "processing"
            /\ assignments[wsess[w].asg].attempt_count = 1

\* A worker is about to call the provider for the retry of a task, while the
\* other worker is about to call it for the other task.
C25_Witness ==
    \E w1 \in Workers : \E w2 \in Workers \ {w1} :
        /\ pc[w1] = "execute" /\ pc[w2] = "execute"
        /\ Len(calls[wtask[w1]]) = 1

\* C27: a task that is pending in the store is in the queue or in the hands
\* of a worker that dequeued it and is still inside process_task.
C27_NoPendingTaskLost ==
    \A t \in DOMAIN tasks :
        tasks[t].status = "pending" => (t \in DOMAIN queue \/ InProcess(t))

\* The sum of tokens_used over a set of assignment rows.
RECURSIVE SumTokens(_)
SumTokens(rows) ==
    IF rows = {} THEN 0
    ELSE LET i == CHOOSE r \in rows : TRUE
         IN  assignments[i].tokens_used + SumTokens(rows \ {i})

\* C28: no usage is dropped: an account's token_used is never less than the
\* sum of tokens_used over the completed assignments on it (no reset runs
\* here; the usage an account starts with comes on top).
C28_NoLostTokenUpdate ==
    \A k \in 1..Len(accounts) :
        accounts[k].token_used >=
            SumTokens({i \in 1..Len(assignments) :
                          /\ assignments[i].account_id = accounts[k].id
                          /\ assignments[i].status = "completed"})

\* C29: on any account table, at any time, the manual sweep leaves the
\* accounts as the scheduled job does, and every account it resets gets a
\* reset_date after now.
C29_ManualSweepEquivalent ==
    /\ reset_expired_tokens(accounts, now) = scheduled_token_reset(accounts, now)
    /\ \A i \in 1..Len(accounts) :
          DueForReset(accounts[i], now)
              => TheValue(reset_expired_tokens(accounts, now)[i].reset_date) > now

\* C23: an enqueue of an id that is already queued leaves queue_length as it
\* is, gives the id the score of this enqueue (its priority, this clock
\* reading) and changes no other entry: an id is in the queue at most once.
C23_ReenqueueLastWriteWins ==
    [][\A id \in DOMAIN queue :
        (enqSeq' = enqSeq + 1 /\ id \in DOMAIN qmeta' /\ qmeta'[id].seq = enqSeq')
        => /\ queue_length(queue') = queue_length(queue)
           /\ queue'[id] = Score(qmeta'[id].priority, now)
           /\ \A o \in (DOMAIN queue) \ {id} : queue'[o] = queue[o]
           /\ added'[id] = added[id]]_vars

\* After a first id, a second id was enqueued twice, the second time with
\* priority 5 at a later clock reading: the queue holds two entries and the
\* second id has the score of its last enqueue.
C23_Witness ==
    /\ enqSeq = 3
    /\ queue_length(queue) = 2
    /\ \A id \in TaskIds : popped[id] = 0
    /\ \E id \in DOMAIN queue :
          /\ qmeta[id].seq = 3
          /\ qmeta[id].priority = 5
          /\ added[id] = 1
          /\ queue[id] = Score(5, now)
          /\ now > ClockStart
          /\ \A o \in (DOMAIN queue) \ {id} : qmeta[o].seq = 1

\* C26: a request with title, task_type and an integer priority in 1..5,
\* struck by no fault, persists a pending Task of that priority and leaves
\* its id queued with the score of that priority; a request whose priority
\* is outside 1..5 or is not an integer persists no Task and leaves the
\* queue as it is.
C26_CreateTaskValidates ==
    [][\A id \in TaskIds :
        (~api[id].asked /\ api'[id].asked /\ api'[id].data.has_fields
            /\ api'[id].fault = "none")
        => LET inp == api'[id].data.priority IN
           /\ (inp.kind = "int" /\ inp.num \in Priorities)
                => /\ id \in DOMAIN tasks'
                   /\ tasks'[id].status = "pending"
                   /\ tasks'[id].priority = inp.num
                   /\ id \in DOMAIN queue'
                   /\ queue'[id] = Score(inp.num, now)
           /\ (inp.kind \in {"float", "str", "null"}
                  \/ (inp.kind = "int" /\ inp.num \notin Priorities))
                => (tasks' = tasks /\ queue' = queue)]_vars

\* C30: a request that create_task answered with an error has left no Task
\* row.
C30_CreateTaskAllOrNothing ==
    \A id \in TaskIds : (api[id].asked /\ api[id].code # 201) => id \notin DOMAIN tasks

=============================================================================
